---- MODULE Spec2Model ----
(***************************************************************************)
(* A model of objective-canvas: the camera/viewport arithmetic, the mouse  *)
(* input singleton, the CanvasObject interaction state machine and the     *)
(* frame driver.                                                           *)
(*                                                                         *)
(* JavaScript numbers are modelled as exact rationals <<n, d>> (d > 0, in  *)
(* lowest terms) extended with the three non-finite values a division by   *)
(* zero produces: <<1, 0>> is +Infinity, <<-1, 0>> is -Infinity and        *)
(* <<0, 0>> is NaN.  Rounding of IEEE doubles and the sign of zero are not *)
(* modelled.                                                               *)
(***************************************************************************)
EXTENDS Integers, Sequences, FiniteSets, TLC

----------------------------------------------------------------------------
(* Numbers *)

Abs(i) == IF i < 0 THEN -i ELSE i

Sign(i) == IF i < 0 THEN -1 ELSE IF i > 0 THEN 1 ELSE 0

RECURSIVE Gcd(_, _)
Gcd(a, b) == IF b = 0 THEN a ELSE Gcd(b, a % b)

\* the rational n/d, d # 0, in lowest terms with a positive denominator
Norm(n, d) ==
    LET g == Gcd(Abs(n), Abs(d))
    IN  <<(Sign(d) * n) \div g, Abs(d) \div g>>

R(i) == <<i, 1>>

NaN == <<0, 0>>
PosInf == <<1, 0>>
NegInf == <<-1, 0>>

IsNaN(a) == a = NaN
IsFinite(a) == a[2] # 0
IsInf(a) == a[2] = 0 /\ a[1] # 0
IsZero(a) == IsFinite(a) /\ a[1] = 0

\* a + b
RAdd(a, b) ==
    IF IsNaN(a) \/ IsNaN(b) THEN NaN
    ELSE IF IsInf(a) /\ IsInf(b) THEN (IF a = b THEN a ELSE NaN)
    ELSE IF IsInf(a) THEN a
    ELSE IF IsInf(b) THEN b
    ELSE Norm(a[1] * b[2] + b[1] * a[2], a[2] * b[2])

RNeg(a) == <<-a[1], a[2]>>

\* a - b
RSub(a, b) == RAdd(a, RNeg(b))

\* a * b
RMul(a, b) ==
    IF IsNaN(a) \/ IsNaN(b) THEN NaN
    ELSE IF IsInf(a) \/ IsInf(b)
         THEN (IF IsZero(a) \/ IsZero(b) THEN NaN
               ELSE <<Sign(a[1]) * Sign(b[1]), 0>>)
    ELSE Norm(a[1] * b[1], a[2] * b[2])

\* a / b
RDiv(a, b) ==
    IF IsNaN(a) \/ IsNaN(b) THEN NaN
    ELSE IF IsInf(b) THEN (IF IsInf(a) THEN NaN ELSE R(0))
    ELSE IF IsZero(b) THEN (IF IsZero(a) THEN NaN ELSE <<Sign(a[1]), 0>>)
    ELSE IF IsInf(a) THEN <<Sign(a[1]) * Sign(b[1]), 0>>
    ELSE Norm(a[1] * b[2], a[2] * b[1])

\* a < b (false when either is NaN)
RLt(a, b) ==
    IF IsNaN(a) \/ IsNaN(b) THEN FALSE
    ELSE IF IsFinite(a) /\ IsFinite(b) THEN a[1] * b[2] < b[1] * a[2]
    ELSE IF IsInf(a) /\ IsInf(b) THEN a[1] < b[1]
    ELSE IF IsInf(a) THEN a[1] < 0
    ELSE b[1] > 0

\* a === b on numbers (NaN differs from itself)
REq(a, b) == ~IsNaN(a) /\ a = b

\* a <= b
RLe(a, b) == RLt(a, b) \/ REq(a, b)

\* Math.min / Math.max
RMin(a, b) == IF IsNaN(a) \/ IsNaN(b) THEN NaN ELSE IF RLt(b, a) THEN b ELSE a
RMax(a, b) == IF IsNaN(a) \/ IsNaN(b) THEN NaN ELSE IF RLt(a, b) THEN b ELSE a

----------------------------------------------------------------------------
(* Vec2 *)

Vec2(x, y) == [x |-> x, y |-> y]
Vec2zero == Vec2(R(0), R(0))
Vec2one == Vec2(R(1), R(1))
Vec2sum(a, b) == Vec2(RAdd(a.x, b.x), RAdd(a.y, b.y))
Vec2diff(a, b) == Vec2(RSub(a.x, b.x), RSub(a.y, b.y))
VEq(a, b) == REq(a.x, b.x) /\ REq(a.y, b.y)
V(i, j) == Vec2(R(i), R(j))

----------------------------------------------------------------------------
(* Bounds of the model *)

\* the tangent of Camera.fov = Math.PI / 4.0
TanFov == 1

\* the distance the camera starts at
InitDistance == 1000

\* the clamp the wheel listeners apply to the distance
MinDistance == 100
MaxDistance == 10000

\* the default edge of a CanvasObject's box
DefaultSize == 50

\* the camera is panned at most MaxPan world units away from the origin
MaxPan == 100

\* "no object": the value of an undefined reference
None == "undefined"

----------------------------------------------------------------------------
(* State *)

VARIABLES
    canvas,         \* the drawing surface: [width, height] in pixels
    canvasOptions,  \* the options initCanvas was called with
    Camera,         \* the Camera singleton
    Mouse,          \* the Mouse singleton
    objects,        \* the global list of root objects (ids, in registration order)
    nodes,          \* every CanvasObject constructed: id -> its fields
    pc,             \* where the frame driver is: "idle" between two frames
    tickIdx,        \* the index in the tick order of the next object to tick
    prevSelected,   \* draw()'s snapshot of Mouse.selected?.id
    emitted,        \* "select" notifications emitted in the current frame
    hist,           \* observations of the current frame and drag
    probe           \* the last evaluation of a pure function: inputs and result

vars == <<canvas, canvasOptions, Camera, Mouse, objects, nodes, pc, tickIdx,
          prevSelected, emitted, hist, probe>>

\* no evaluation recorded
NoProbe == [op |-> "none"]

----------------------------------------------------------------------------
(* utils.ts *)

\* a variant of inside() that takes in the left edge
insideLeftEdge(pos, size, pos2) ==
    /\ RLe(pos.x, pos2.x)
    /\ RLt(pos2.x, RAdd(pos.x, size.x))
    /\ RLt(pos.y, pos2.y)
    /\ RLt(pos2.y, RAdd(pos.y, size.y))

\* inside(pos, size, pos2)
inside(pos, size, pos2) ==
    /\ RLt(pos.x, pos2.x)
    /\ RLt(pos2.x, RAdd(pos.x, size.x))
    /\ RLt(pos.y, pos2.y)
    /\ RLt(pos2.y, RAdd(pos.y, size.y))

\* colliding(pos, size, pos2, size2)
colliding(pos, size, pos2, size2) ==
    /\ RLt(pos.x, RAdd(pos2.x, size2.x))
    /\ RLt(pos2.x, RAdd(pos.x, size.x))
    /\ RLt(pos.y, RAdd(pos2.y, size2.y))
    /\ RLt(pos2.y, RAdd(pos.y, size.y))

----------------------------------------------------------------------------
(* camera.ts *)

InitViewport ==
    [left |-> R(0), right |-> R(0), top |-> R(0), bottom |-> R(0),
     width |-> R(0), height |-> R(0), scale |-> Vec2one]

InitCamera ==
    [distance |-> R(InitDistance), lookAt |-> Vec2zero,
     viewport |-> InitViewport, locked |-> FALSE]

\* a variant of update() whose rectangle starts at lookAt
UpdatedViewportCorner(distance, lookAt, cv) ==
    LET aspectRatio == RDiv(R(cv.width), R(cv.height))
        width == RMul(distance, R(TanFov))
        height == RDiv(width, aspectRatio)
    IN  [width |-> width, height |-> height,
         left |-> lookAt.x, top |-> lookAt.y,
         right |-> RAdd(lookAt.x, width), bottom |-> RAdd(lookAt.y, height),
         scale |-> Vec2(RDiv(R(cv.width), width), RDiv(R(cv.height), height))]

\* the viewport Camera.update() computes
UpdatedViewport(distance, lookAt, cv) ==
    LET aspectRatio == RDiv(R(cv.width), R(cv.height))
        width == RMul(distance, R(TanFov))
        height == RDiv(width, aspectRatio)
        left == RSub(lookAt.x, RDiv(width, R(2)))
        top == RSub(lookAt.y, RDiv(height, R(2)))
    IN  [width |-> width, height |-> height,
         left |-> left, top |-> top,
         right |-> RAdd(left, width), bottom |-> RAdd(top, height),
         scale |-> Vec2(RDiv(R(cv.width), width), RDiv(R(cv.height), height))]

\* Camera.update()
update(cam, cv) ==
    [cam EXCEPT !.viewport = UpdatedViewport(cam.distance, cam.lookAt, cv)]

\* a variant of moveTo() that consults the lock
moveToGated(cam, cv, pos) ==
    IF cam.locked THEN cam ELSE update([cam EXCEPT !.lookAt = pos], cv)

\* Camera.moveTo(pos)
moveTo(cam, cv, pos) == update([cam EXCEPT !.lookAt = pos], cv)

\* a variant of zoomTo() that forgets update()
zoomToNoUpdate(cam, cv, distance) == [cam EXCEPT !.distance = distance]

\* Camera.zoomTo(distance)
zoomTo(cam, cv, distance) == update([cam EXCEPT !.distance = distance], cv)

\* Camera.lock() / Camera.unlock()
lock(cam) == [cam EXCEPT !.locked = TRUE]
unlock(cam) == [cam EXCEPT !.locked = FALSE]

\* Camera.screenToWorld(pos)
screenToWorld(vp, pos) ==
    Vec2(RAdd(RDiv(pos.x, vp.scale.x), vp.left),
         RAdd(RDiv(pos.y, vp.scale.y), vp.top))

\* a variant of worldToScreen() that scales before it translates
worldToScreenScaleFirst(vp, pos) ==
    Vec2(RSub(RMul(pos.x, vp.scale.x), vp.left),
         RSub(RMul(pos.y, vp.scale.y), vp.top))

\* Camera.worldToScreen(pos)
worldToScreen(vp, pos) ==
    Vec2(RMul(RSub(pos.x, vp.left), vp.scale.x),
         RMul(RSub(pos.y, vp.top), vp.scale.y))

----------------------------------------------------------------------------
(* input.ts *)

InitMouse ==
    [pos |-> Vec2zero, worldPos |-> Vec2zero, delta |-> Vec2zero,
     leftDown |-> FALSE, rightDown |-> FALSE,
     hovering |-> None, dragging |-> None, selected |-> None]

----------------------------------------------------------------------------
(* object.ts *)

\* new CanvasObject(pos, size), with state.draggable as the constructor leaves it
CanvasObject(pos, size, children, draggable) ==
    [pos |-> pos, size |-> size, children |-> children,
     state |-> [hovering |-> FALSE, dragging |-> FALSE, draggable |-> draggable,
                dragOffset |-> Vec2zero, selected |-> FALSE]]

\* a variant of the tick order that runs an object's own logic before its
\* children tick
RECURSIVE TickOrderParentFirst(_, _)
TickOrderParentFirst(ns, ids) ==
    IF ids = <<>> THEN <<>>
    ELSE <<Head(ids)>> \o TickOrderParentFirst(ns, ns[Head(ids)].children)
         \o TickOrderParentFirst(ns, Tail(ids))

\* a variant of the tick order that ticks the objects of a list last to first
RECURSIVE TickOrderLaterFirst(_, _)
TickOrderLaterFirst(ns, ids) ==
    IF ids = <<>> THEN <<>>
    ELSE TickOrderLaterFirst(ns, Tail(ids))
         \o TickOrderLaterFirst(ns, ns[Head(ids)].children) \o <<Head(ids)>>

\* the objects whose own tick logic runs when tick() is called on each of ids in
\* turn: tick() first ticks the children, then runs the object's own logic
RECURSIVE TickOrder(_, _)
TickOrder(ns, ids) ==
    IF ids = <<>> THEN <<>>
    ELSE TickOrder(ns, ns[Head(ids)].children) \o <<Head(ids)>>
         \o TickOrder(ns, Tail(ids))

\* a variant of the draw order that draws the roots last to first
RECURSIVE DrawOrderReversed(_, _)
DrawOrderReversed(ns, ids) ==
    IF ids = <<>> THEN <<>>
    ELSE DrawOrderReversed(ns, Tail(ids))
         \o DrawOrderReversed(ns, ns[Head(ids)].children) \o <<Head(ids)>>

\* the objects whose own drawing runs when draw() is called on each of ids in
\* turn: draw() first draws the children, then the object itself
RECURSIVE DrawOrder(_, _)
DrawOrder(ns, ids) ==
    IF ids = <<>> THEN <<>>
    ELSE DrawOrder(ns, ns[Head(ids)].children) \o <<Head(ids)>>
         \o DrawOrder(ns, Tail(ids))

\* a variant of the drag start that does not lock the camera
DragStartNoLock(S, id) ==
    LET n == S.nodes[id]
    IN  IF n.state.draggable /\ n.state.hovering /\ ~n.state.dragging
           /\ S.Mouse.dragging = None /\ S.Mouse.leftDown
        THEN [S EXCEPT !.Mouse.dragging = id,
                       !.nodes[id].state.dragging = TRUE,
                       !.nodes[id].state.dragOffset =
                            Vec2diff(n.pos, S.Mouse.worldPos)]
        ELSE S

\* a variant of the drag start that leaves Mouse.dragging alone
DragStartUnrecorded(S, id) ==
    LET n == S.nodes[id]
    IN  IF n.state.draggable /\ n.state.hovering /\ ~n.state.dragging
           /\ S.Mouse.dragging = None /\ S.Mouse.leftDown
        THEN [S EXCEPT !.Camera = lock(S.Camera),
                       !.nodes[id].state.dragging = TRUE,
                       !.nodes[id].state.dragOffset =
                            Vec2diff(n.pos, S.Mouse.worldPos)]
        ELSE S

\* a variant of the drag start that does not consult state.draggable
DragStartAnyObject(S, id) ==
    LET n == S.nodes[id]
    IN  IF n.state.hovering /\ ~n.state.dragging
           /\ S.Mouse.dragging = None /\ S.Mouse.leftDown
        THEN [S EXCEPT !.Camera = lock(S.Camera),
                       !.Mouse.dragging = id,
                       !.nodes[id].state.dragging = TRUE,
                       !.nodes[id].state.dragOffset =
                            Vec2diff(n.pos, S.Mouse.worldPos)]
        ELSE S

\* tick(), lines 98-104: the drag starts
DragStart(S, id) ==
    LET n == S.nodes[id]
    IN  IF n.state.draggable /\ n.state.hovering /\ ~n.state.dragging
           /\ S.Mouse.dragging = None /\ S.Mouse.leftDown
        THEN [S EXCEPT !.Camera = lock(S.Camera),
                       !.Mouse.dragging = id,
                       !.nodes[id].state.dragging = TRUE,
                       !.nodes[id].state.dragOffset =
                            Vec2diff(n.pos, S.Mouse.worldPos)]
        ELSE S

\* a variant of the drag move that drops the offset
DragMoveNoOffset(S, id) ==
    LET n == S.nodes[id]
    IN  IF n.state.draggable /\ n.state.dragging
        THEN [S EXCEPT !.nodes[id].pos = S.Mouse.worldPos]
        ELSE S

\* tick(), lines 106-108: the dragged object follows the mouse
DragMove(S, id) ==
    LET n == S.nodes[id]
    IN  IF n.state.draggable /\ n.state.dragging
        THEN [S EXCEPT !.nodes[id].pos =
                            Vec2sum(S.Mouse.worldPos, n.state.dragOffset)]
        ELSE S

\* a variant of the release that ends the drag and selects nothing
DragReleaseNoSelect(S, id) ==
    LET n == S.nodes[id]
    IN  IF n.state.draggable /\ n.state.dragging /\ ~S.Mouse.leftDown
        THEN [S EXCEPT !.Camera = unlock(S.Camera),
                       !.Mouse.dragging = None,
                       !.nodes[id].state.dragging = FALSE]
        ELSE S

\* a variant of the release that selects the object and notifies nobody
DragReleaseNoEmit(S, id) ==
    LET n == S.nodes[id]
        sel == S.Mouse.selected
        demoted == IF sel # None /\ S.nodes[sel].state.selected
                   THEN [S.nodes EXCEPT ![sel].state.selected = FALSE]
                   ELSE S.nodes
    IN  IF n.state.draggable /\ n.state.dragging /\ ~S.Mouse.leftDown
        THEN [S EXCEPT !.Camera = unlock(S.Camera),
                       !.Mouse.dragging = None,
                       !.Mouse.selected = id,
                       !.nodes = [demoted EXCEPT ![id].state.dragging = FALSE,
                                                 ![id].state.selected = TRUE]]
        ELSE S

\* a variant of the release that selects whatever the mouse is over when the
\* button is up
DragReleaseHovered(S, id) ==
    LET n == S.nodes[id]
        sel == S.Mouse.selected
        demoted == IF sel # None /\ S.nodes[sel].state.selected
                   THEN [S.nodes EXCEPT ![sel].state.selected = FALSE]
                   ELSE S.nodes
    IN  IF n.state.hovering /\ ~S.Mouse.leftDown
        THEN [S EXCEPT !.Camera = unlock(S.Camera),
                       !.Mouse.dragging = None,
                       !.Mouse.selected = id,
                       !.nodes = [demoted EXCEPT ![id].state.dragging = FALSE,
                                                 ![id].state.selected = TRUE],
                       !.emitted = S.emitted + 1]
        ELSE S

\* a variant of the release that leaves the camera lock as it finds it
DragReleaseKeepLock(S, id) ==
    LET n == S.nodes[id]
        sel == S.Mouse.selected
        demoted == IF sel # None /\ S.nodes[sel].state.selected
                   THEN [S.nodes EXCEPT ![sel].state.selected = FALSE]
                   ELSE S.nodes
    IN  IF n.state.draggable /\ n.state.dragging /\ ~S.Mouse.leftDown
        THEN [S EXCEPT !.Mouse.dragging = None,
                       !.Mouse.selected = id,
                       !.nodes = [demoted EXCEPT ![id].state.dragging = FALSE,
                                                 ![id].state.selected = TRUE],
                       !.emitted = S.emitted + 1]
        ELSE S

\* tick(), lines 110-121: the drag is released and the object selected
DragRelease(S, id) ==
    LET n == S.nodes[id]
        sel == S.Mouse.selected
        demoted == IF sel # None /\ S.nodes[sel].state.selected
                   THEN [S.nodes EXCEPT ![sel].state.selected = FALSE]
                   ELSE S.nodes
    IN  IF n.state.draggable /\ n.state.dragging /\ ~S.Mouse.leftDown
        THEN [S EXCEPT !.Camera = unlock(S.Camera),
                       !.Mouse.dragging = None,
                       !.Mouse.selected = id,
                       !.nodes = [demoted EXCEPT ![id].state.dragging = FALSE,
                                                 ![id].state.selected = TRUE],
                       !.emitted = S.emitted + 1]
        ELSE S

\* a variant of the hover test that takes the hover from another owner
HoverPreempt(S, id) ==
    LET n == S.nodes[id]
    IN  IF inside(n.pos, n.size, S.Mouse.worldPos)
        THEN [S EXCEPT !.Mouse.hovering = id,
                       !.nodes[id].state.hovering = TRUE]
        ELSE IF S.Mouse.hovering = id
        THEN [S EXCEPT !.Mouse.hovering = None,
                       !.nodes[id].state.hovering = FALSE]
        ELSE S

\* a variant of the hover test that never releases the hover
HoverKept(S, id) ==
    LET n == S.nodes[id]
    IN  IF (S.Mouse.hovering = None \/ S.Mouse.hovering = id)
           /\ inside(n.pos, n.size, S.Mouse.worldPos)
        THEN [S EXCEPT !.Mouse.hovering = id,
                       !.nodes[id].state.hovering = TRUE]
        ELSE S

\* tick(), lines 124-130: hover is acquired or released
Hover(S, id) ==
    LET n == S.nodes[id]
    IN  IF (S.Mouse.hovering = None \/ S.Mouse.hovering = id)
           /\ inside(n.pos, n.size, S.Mouse.worldPos)
        THEN [S EXCEPT !.Mouse.hovering = id,
                       !.nodes[id].state.hovering = TRUE]
        ELSE IF S.Mouse.hovering = id
        THEN [S EXCEPT !.Mouse.hovering = None,
                       !.nodes[id].state.hovering = FALSE]
        ELSE S

\* a variant of tick() that acquires the hover before the drag starts
tickHoverFirst(S, id) ==
    DragRelease(DragMove(DragStart(Hover(S, id), id), id), id)

\* the object's own logic in tick(), after its children have ticked: the four
\* blocks in turn, each on the state the one before has left
tick(S, id) ==
    CHOOSE r \in {Hover(s3, id) :
                    s3 \in {DragRelease(s2, id) :
                              s2 \in {DragMove(s1, id) :
                                        s1 \in {DragStart(S, id)}}}} : TRUE

----------------------------------------------------------------------------
(* renderer.ts: the input listeners *)

\* the options of initCanvas: cameraControls absent, or its three optional
\* fields; whether drawBackground is given; debug and profiler
NoControls == [cameraControls |-> FALSE, moveButton |-> None,
               zoom |-> None, panning |-> None,
               drawBackground |-> FALSE, debug |-> FALSE, profiler |-> FALSE]
DefaultControls == [NoControls EXCEPT !.cameraControls = TRUE]

\* x ?? true
OrTrue(x) == IF x = None THEN TRUE ELSE x = "true"

\* canvasOptions.cameraControls.moveButton?.() ?? Mouse.leftDown
MoveButton(opts, M) ==
    IF opts.moveButton = None THEN M.leftDown ELSE M.rightDown

\* a variant of the "move" listener that does not consult the lock
PanListenerUngated(cam, cv, M, pressed) ==
    IF pressed THEN moveTo(cam, cv, Vec2diff(cam.lookAt, M.delta)) ELSE cam

\* a "move" listener: pans the camera by -Mouse.delta unless it is locked
PanListener(cam, cv, M, pressed) ==
    IF cam.locked THEN cam
    ELSE IF pressed THEN moveTo(cam, cv, Vec2diff(cam.lookAt, M.delta))
    ELSE cam

\* a "wheel" listener: zooms by deltaY, clamped, unless the camera is locked
ZoomListener(cam, cv, deltaY) ==
    IF cam.locked THEN cam
    ELSE zoomTo(cam, cv,
                RMin(RMax(RAdd(cam.distance, R(deltaY)), R(MinDistance)),
                     R(MaxDistance)))

\* is the panning listener of addListeners() installed
PanningInstalled(opts) == opts.cameraControls /\ OrTrue(opts.panning)

\* is the zoom listener of addListeners() installed
ZoomInstalled(opts) == opts.cameraControls /\ OrTrue(opts.zoom)

\* Mouse.events.emit("move"): camera.ts's listener, then addListeners()'s
EmitMove(cam, cv, M, opts) ==
    LET c1 == PanListener(cam, cv, M, M.leftDown)
    IN  IF PanningInstalled(opts)
        THEN PanListener(c1, cv, M, MoveButton(opts, M))
        ELSE c1

\* Mouse.events.emit("wheel"): camera.ts's listener, then addListeners()'s
EmitWheel(cam, cv, deltaY, opts) ==
    LET c1 == ZoomListener(cam, cv, deltaY)
    IN  IF ZoomInstalled(opts) THEN ZoomListener(c1, cv, deltaY) ELSE c1

\* the mousemove listener's update of the Mouse singleton
MovedMouse(M, cam, p) ==
    LET oldPos == M.pos
    IN  [M EXCEPT !.pos = p,
                  !.worldPos = screenToWorld(cam.viewport, p),
                  !.delta = Vec2(RDiv(RSub(p.x, oldPos.x), cam.viewport.scale.x),
                                 RDiv(RSub(p.y, oldPos.y), cam.viewport.scale.y))]

\* the camera stays within MaxPan of the origin
PanBounded(cam) ==
    /\ RLe(R(-MaxPan), cam.lookAt.x) /\ RLe(cam.lookAt.x, R(MaxPan))
    /\ RLe(R(-MaxPan), cam.lookAt.y) /\ RLe(cam.lookAt.y, R(MaxPan))

----------------------------------------------------------------------------
(* Observers: they read the state and the events, and change neither *)

\* the end-to-end drag scenario as a script of events from the initial state:
\* the mouse at world (25,25), the button down, one frame, the mouse at world
\* (125,25), one frame, the button up, one frame
Script1 ==
    <<<<"move", V(525, 525)>>, <<"down", 0>>, <<"frame">>,
      <<"move", V(625, 525)>>, <<"frame">>, <<"up", 0>>, <<"frame">>>>

\* the same scenario with two frames after the button went down
Script2 ==
    <<<<"move", V(525, 525)>>, <<"down", 0>>, <<"frame">>, <<"frame">>,
      <<"move", V(625, 525)>>, <<"frame">>, <<"up", 0>>, <<"frame">>>>

\* the position of a run that left the scripts
Off == Len(Script2) + 1

\* how far the events so far follow a script (Off once they left it)
ScnStep(script, at, ev) ==
    IF at < Len(script) /\ script[at + 1] = ev THEN at + 1 ELSE Off

\* the objects of the scene, in tick order
Scene == TickOrder(nodes, objects)
SceneIds == {Scene[i] : i \in 1..Len(Scene)}

\* the mouse is over object n
Over(n) == inside(nodes[n].pos, nodes[n].size, Mouse.worldPos)

\* object n overlaps no other object of the scene
Alone(n) ==
    \A m \in SceneIds \ {n} :
        ~colliding(nodes[n].pos, nodes[n].size, nodes[m].pos, nodes[m].size)

NoClick == [phase |-> "none"]

\* a click in progress: the button went down over an unselected object that
\* overlaps no other, and the mouse has not moved since
ClickStep(ev) ==
    IF ev = <<"down", 0>>
    THEN IF \E n \in SceneIds : Over(n) /\ Alone(n) /\ ~nodes[n].state.selected
         THEN LET n == CHOOSE n \in SceneIds :
                          Over(n) /\ Alone(n) /\ ~nodes[n].state.selected
              IN  [phase |-> "down", node |-> n, framed |-> FALSE,
                   owner |-> Mouse.hovering = n /\ nodes[n].state.draggable,
                   nodrag |-> Mouse.dragging = None]
         ELSE NoClick
    ELSE IF ev = <<"up", 0>> /\ hist.click.phase = "down"
    THEN [hist.click EXCEPT !.phase = "up"]
    ELSE IF ev = <<"frame">> /\ hist.click.phase = "down"
    THEN [hist.click EXCEPT !.framed = TRUE]
    ELSE IF ev = <<"frame">> /\ hist.click.phase = "up"
    THEN [hist.click EXCEPT !.phase = "done"]
    ELSE NoClick

\* the observers after event ev; upd: the event's handler ran Camera.update()
Observed(ev, upd) ==
    [hist EXCEPT !.scn1 = ScnStep(Script1, @, ev),
                 !.scn2 = ScnStep(Script2, @, ev),
                 !.click = ClickStep(ev),
                 !.measured = IF upd THEN canvas ELSE @]

\* the "move" listeners run Camera.moveTo(), hence Camera.update()
MovePans(cam, M, opts) ==
    ~cam.locked /\ (M.leftDown \/ (PanningInstalled(opts) /\ MoveButton(opts, M)))

----------------------------------------------------------------------------
\* the canvas "mousemove" listener
mousemove(p) ==
    /\ pc = "idle"
    /\ LET M == MovedMouse(Mouse, Camera, p)
           cam == EmitMove(Camera, canvas, M, canvasOptions)
       IN  /\ PanBounded(cam)
           /\ Mouse' = M
           /\ Camera' = cam
    /\ hist' = Observed(<<"move", p>>,
                        MovePans(Camera, MovedMouse(Mouse, Camera, p), canvasOptions))
    /\ probe' = NoProbe
    /\ UNCHANGED <<canvas, canvasOptions, objects, nodes, pc, tickIdx,
                   prevSelected, emitted>>

\* the canvas "mousedown" listener
mousedown(button) ==
    /\ pc = "idle"
    /\ Mouse' = IF button = 0 THEN [Mouse EXCEPT !.leftDown = TRUE]
                ELSE IF button = 2 THEN [Mouse EXCEPT !.rightDown = TRUE]
                ELSE Mouse
    /\ hist' = Observed(<<"down", button>>, FALSE)
    /\ probe' = NoProbe
    /\ UNCHANGED <<canvas, canvasOptions, Camera, objects, nodes, pc, tickIdx,
                   prevSelected, emitted>>

\* the canvas "mouseup" listener
mouseup(button) ==
    /\ pc = "idle"
    /\ Mouse' = IF button = 0 THEN [Mouse EXCEPT !.leftDown = FALSE]
                ELSE IF button = 2 THEN [Mouse EXCEPT !.rightDown = FALSE]
                ELSE Mouse
    /\ hist' = Observed(<<"up", button>>, FALSE)
    /\ probe' = NoProbe
    /\ UNCHANGED <<canvas, canvasOptions, Camera, objects, nodes, pc, tickIdx,
                   prevSelected, emitted>>

\* the canvas "wheel" listener
wheel(deltaY) ==
    /\ pc = "idle"
    /\ Camera' = EmitWheel(Camera, canvas, deltaY, canvasOptions)
    /\ hist' = Observed(<<"wheel", deltaY>>, ~Camera.locked)
    /\ probe' = [op |-> "wheel", deltaY |-> deltaY]
    /\ UNCHANGED <<canvas, canvasOptions, Mouse, objects, nodes, pc, tickIdx,
                   prevSelected, emitted>>

\* resize(), run on the window's "resize" with the canvas displayed w by h
resize(w, h) ==
    /\ pc = "idle"
    /\ canvas' = [width |-> w, height |-> h]
    /\ hist' = Observed(<<"resize", w, h>>, FALSE)
    /\ probe' = NoProbe
    /\ UNCHANGED <<canvasOptions, Camera, Mouse, objects, nodes, pc, tickIdx,
                   prevSelected, emitted>>

----------------------------------------------------------------------------
(* Calls of the application, between two frames *)

\* the application calls Camera.moveTo(pos)
moveToCall(pos) ==
    /\ pc = "idle"
    /\ Camera' = moveTo(Camera, canvas, pos)
    /\ hist' = Observed(<<"moveTo", pos>>, TRUE)
    /\ probe' = [op |-> "moveTo", pos |-> pos]
    /\ UNCHANGED <<canvas, canvasOptions, Mouse, objects, nodes, pc, tickIdx,
                   prevSelected, emitted>>

\* the application calls Camera.zoomTo(distance)
zoomToCall(distance) ==
    /\ pc = "idle"
    /\ Camera' = zoomTo(Camera, canvas, R(distance))
    /\ hist' = Observed(<<"zoomTo", distance>>, TRUE)
    /\ probe' = [op |-> "zoomTo", distance |-> distance]
    /\ UNCHANGED <<canvas, canvasOptions, Mouse, objects, nodes, pc, tickIdx,
                   prevSelected, emitted>>

\* the application calls Camera.zoomTo(d1), reads the viewport, then calls
\* Camera.zoomTo(d2) and reads it again
zoomTwice(d1, d2) ==
    /\ pc = "idle"
    /\ LET c1 == zoomTo(Camera, canvas, R(d1))
           c2 == zoomTo(c1, canvas, R(d2))
       IN  /\ Camera' = c2
           /\ probe' = [op |-> "zoomTwice", d1 |-> d1, d2 |-> d2,
                        first |-> c1.viewport, second |-> c2.viewport]
    /\ hist' = Observed(<<"zoomTo", d2>>, TRUE)
    /\ UNCHANGED <<canvas, canvasOptions, Mouse, objects, nodes, pc, tickIdx,
                   prevSelected, emitted>>

\* the application calls Camera.lock()
lockCall ==
    /\ pc = "idle"
    /\ Camera' = lock(Camera)
    /\ hist' = Observed(<<"lock">>, FALSE)
    /\ probe' = [op |-> "lock"]
    /\ UNCHANGED <<canvas, canvasOptions, Mouse, objects, nodes, pc, tickIdx,
                   prevSelected, emitted>>

\* the application calls Camera.unlock()
unlockCall ==
    /\ pc = "idle"
    /\ Camera' = unlock(Camera)
    /\ hist' = Observed(<<"unlock">>, FALSE)
    /\ probe' = [op |-> "unlock"]
    /\ UNCHANGED <<canvas, canvasOptions, Mouse, objects, nodes, pc, tickIdx,
                   prevSelected, emitted>>

\* the application evaluates inside(pos, size, point)
insideCall(pos, size, point) ==
    /\ probe' = [op |-> "inside", pos |-> pos, size |-> size, point |-> point,
                 result |-> inside(pos, size, point)]
    /\ UNCHANGED <<canvas, canvasOptions, Camera, Mouse, objects, nodes, pc,
                   tickIdx, prevSelected, emitted, hist>>

\* the application maps p from the screen to the world and back, and from the
\* world to the screen and back
mapCall(p) ==
    /\ pc = "idle"
    /\ probe' = [op |-> "map", p |-> p,
                 back |-> worldToScreen(Camera.viewport,
                                        screenToWorld(Camera.viewport, p)),
                 forth |-> screenToWorld(Camera.viewport,
                                         worldToScreen(Camera.viewport, p))]
    /\ UNCHANGED <<canvas, canvasOptions, Camera, Mouse, objects, nodes, pc,
                   tickIdx, prevSelected, emitted, hist>>

----------------------------------------------------------------------------
(* renderer.ts: the frame driver *)

\* the part of the state an object's tick reads and writes
TickState ==
    [Camera |-> Camera, Mouse |-> Mouse, nodes |-> nodes, emitted |-> emitted]

\* the observations of one frame, before its first tick
NewFrame(h) ==
    [h EXCEPT !.started = None, !.released = None, !.selAfterTicks = None,
              !.driverEmitted = 0, !.selChanges = 0]

InitHist ==
    [m0 |-> Vec2zero, p0 |-> Vec2zero, started |-> None, released |-> None,
     selAfterTicks |-> None, driverEmitted |-> 0, selChanges |-> 0,
     scn1 |-> 0, scn2 |-> 0, click |-> NoClick, measured |-> canvas,
     calls |-> <<>>, swept |-> {}]

\* a call made by draw(), with the object it is made on
Call(name) == <<name, None>>

\* draw(), lines 80-86: the calls before the first tick
BeginCalls(opts) ==
    <<Call("clearRect"), Call("Camera.begin")>>
    \o (IF opts.drawBackground THEN <<Call("drawBackground")>> ELSE <<>>)
    \o <<Call("snapshot")>>

\* a variant of the end of draw() that ends the camera transform before the
\* objects are drawn
EndCallsEndFirst(ns, ids, opts) ==
    <<Call("Camera.end")>>
    \o [i \in 1..Len(DrawOrder(ns, ids)) |-> <<"draw", DrawOrder(ns, ids)[i]>>]
    \o (IF opts.debug THEN <<Call("debug")>> ELSE <<>>)
    \o (IF opts.profiler THEN <<Call("profiler")>> ELSE <<>>)
    \o <<Call("requestAnimationFrame")>>

\* a variant of the end of draw() that does not request the next frame
EndCallsNoRequest(ns, ids, opts) ==
    [i \in 1..Len(DrawOrder(ns, ids)) |-> <<"draw", DrawOrder(ns, ids)[i]>>]
    \o <<Call("Camera.end")>>
    \o (IF opts.debug THEN <<Call("debug")>> ELSE <<>>)
    \o (IF opts.profiler THEN <<Call("profiler")>> ELSE <<>>)

\* draw(), lines 99-150: the calls after the stale check
EndCalls(ns, ids, opts) ==
    [i \in 1..Len(DrawOrder(ns, ids)) |-> <<"draw", DrawOrder(ns, ids)[i]>>]
    \o <<Call("Camera.end")>>
    \o (IF opts.debug THEN <<Call("debug")>> ELSE <<>>)
    \o (IF opts.profiler THEN <<Call("profiler")>> ELSE <<>>)
    \o <<Call("requestAnimationFrame")>>

\* draw(), lines 79-88: clear, Camera.begin(), background, snapshot
FrameBegin ==
    /\ pc = "idle"
    /\ pc' = "tick"
    /\ tickIdx' = 1
    /\ prevSelected' = Mouse.selected
    /\ hist' = [hist EXCEPT !.calls = BeginCalls(canvasOptions)]
    /\ probe' = NoProbe
    /\ UNCHANGED <<canvas, canvasOptions, Camera, Mouse, objects, nodes,
                   emitted>>

\* draw(), lines 89-91: the own logic of the next object in tick order
TickObject ==
    /\ pc = "tick"
    /\ tickIdx <= Len(TickOrder(nodes, objects))
    /\ LET id == TickOrder(nodes, objects)[tickIdx]
           S == tick(TickState, id)
           starts == Mouse.dragging = None /\ S.Mouse.dragging = id
           releases == Mouse.dragging = id /\ S.Mouse.dragging = None
       IN  /\ Camera' = S.Camera
           /\ Mouse' = S.Mouse
           /\ nodes' = S.nodes
           /\ emitted' = S.emitted
           /\ hist' = [hist EXCEPT
                 !.m0 = IF starts THEN Mouse.worldPos
                        ELSE IF releases THEN Vec2zero ELSE @,
                 !.p0 = IF starts THEN nodes[id].pos
                        ELSE IF releases THEN Vec2zero ELSE @,
                 !.started = IF starts THEN id ELSE @,
                 !.released = IF releases THEN id ELSE @,
                 !.selChanges = IF S.Mouse.selected # Mouse.selected
                                THEN @ + 1 ELSE @,
                 !.calls = Append(@, <<"tick", id>>)]
    /\ tickIdx' = tickIdx + 1
    /\ probe' = NoProbe
    /\ UNCHANGED <<canvas, canvasOptions, objects, pc, prevSelected>>

\* a variant of the staleness test that ignores the button
StaleAnyButton == Mouse.selected # None /\ prevSelected = Mouse.selected

\* a variant of the staleness test that asks for the button to be up
StaleButtonUp ==
    ~Mouse.leftDown /\ Mouse.selected # None /\ prevSelected = Mouse.selected

\* draw(), line 93: the selection is stale
Stale ==
    Mouse.leftDown /\ Mouse.selected # None /\ prevSelected = Mouse.selected

\* a variant of the stale check that clears Mouse.selected and leaves the
\* object's flag
StaleCheckKeepFlag ==
    /\ pc = "tick"
    /\ tickIdx > Len(TickOrder(nodes, objects))
    /\ Mouse' = IF Stale THEN [Mouse EXCEPT !.selected = None] ELSE Mouse
    /\ emitted' = IF Stale THEN emitted + 1 ELSE emitted
    /\ hist' = [hist EXCEPT !.selAfterTicks = Mouse.selected,
                            !.driverEmitted = emitted' - emitted,
                            !.selChanges = IF Mouse'.selected # Mouse.selected
                                           THEN @ + 1 ELSE @,
                            !.calls = Append(@, Call("staleCheck"))]
    /\ pc' = "draw"
    /\ probe' = NoProbe
    /\ UNCHANGED <<canvas, canvasOptions, Camera, objects, nodes, tickIdx,
                   prevSelected>>

\* draw(), lines 93-97: the stale selection is dropped
StaleCheck ==
    /\ pc = "tick"
    /\ tickIdx > Len(TickOrder(nodes, objects))
    /\ nodes' = IF Stale
                THEN [nodes EXCEPT ![Mouse.selected].state.selected = FALSE]
                ELSE nodes
    /\ Mouse' = IF Stale THEN [Mouse EXCEPT !.selected = None] ELSE Mouse
    /\ emitted' = IF Stale THEN emitted + 1 ELSE emitted
    /\ hist' = [hist EXCEPT !.selAfterTicks = Mouse.selected,
                            !.driverEmitted = emitted' - emitted,
                            !.selChanges = IF Mouse'.selected # Mouse.selected
                                           THEN @ + 1 ELSE @,
                            !.calls = Append(@, Call("staleCheck"))]
    /\ pc' = "draw"
    /\ probe' = NoProbe
    /\ UNCHANGED <<canvas, canvasOptions, Camera, objects, tickIdx, prevSelected>>

\* how many times the calls cs ask the host for a next frame; while one is
\* requested and none runs, the driver is "idle"
Requests(cs) ==
    Len(SelectSeq(cs, LAMBDA c : c = Call("requestAnimationFrame")))

\* the objects constructed that no tick() of a frame reaches: they are not in
\* the objects list, nor a descendant of an object in it
Removed ==
    {id \in DOMAIN nodes :
        \A i \in 1..Len(TickOrder(nodes, objects)) :
            TickOrder(nodes, objects)[i] # id}

\* draw(), lines 100-150: the objects are drawn, Camera.end(), the overlays,
\* and the next frame is requested; the frame's locals are dead afterwards
FrameEnd ==
    /\ pc = "draw"
    /\ pc' = IF Requests(EndCalls(nodes, objects, canvasOptions)) > 0
             THEN "idle" ELSE "stopped"
    /\ tickIdx' = 1
    /\ prevSelected' = None
    /\ emitted' = 0
    /\ hist' = [NewFrame(Observed(<<"frame">>, FALSE)) EXCEPT
                    !.calls = @ \o EndCalls(nodes, objects, canvasOptions),
                    !.swept = Removed]
    /\ probe' = NoProbe
    /\ UNCHANGED <<canvas, canvasOptions, Camera, Mouse, objects, nodes>>

----------------------------------------------------------------------------
(* The scenes and inputs explored *)

\* the size of the displayed canvas in the interaction scenes
SceneCanvas == [width |-> 1000, height |-> 1000]

\* where mouse events place the mouse on the canvas
ScreenPoints == {V(525, 525), V(625, 525)}

Box == V(DefaultSize, DefaultSize)

\* one 50x50 object at the origin
SceneOne ==
    [objects |-> <<"a">>,
     nodes |-> [i \in {"a"} |-> CanvasObject(V(0, 0), Box, <<>>, TRUE)]]

\* two overlapping roots
SceneTwo ==
    [objects |-> <<"a", "b">>,
     nodes |-> [i \in {"a", "b"} |->
                  IF i = "a" THEN CanvasObject(V(0, 0), Box, <<>>, TRUE)
                  ELSE CanvasObject(V(10, 0), Box, <<>>, TRUE)]]

\* the state initCanvas() leaves: the canvas measured, the camera updated
InitWith(sc, opts, cv) ==
    /\ canvas = cv
    /\ canvasOptions = opts
    /\ Camera = update(InitCamera, cv)
    /\ Mouse = InitMouse
    /\ objects = sc.objects
    /\ nodes = sc.nodes
    /\ pc = "idle"
    /\ tickIdx = 1
    /\ prevSelected = None
    /\ emitted = 0
    /\ hist = InitHist
    /\ probe = NoProbe

Init == \E sc \in {SceneOne, SceneTwo} : InitWith(sc, NoControls, SceneCanvas)

Frame == FrameBegin \/ TickObject \/ StaleCheck \/ FrameEnd

Next ==
    \/ \E p \in ScreenPoints : mousemove(p)
    \/ mousedown(0)
    \/ mouseup(0)
    \/ Frame

\* the mouse and the frame loop, over one object and over two overlapping ones
Spec == Init /\ [][Next]_vars

InitOne == InitWith(SceneOne, NoControls, SceneCanvas)

\* the mouse and the frame loop over a single object
SpecOne == InitOne /\ [][Next]_vars

----------------------------------------------------------------------------
(* The camera alone: no object, any surface *)

NoScene == [objects |-> <<>>, nodes |-> <<>>]

\* the displayed sizes of the canvas, a hidden canvas (0 wide or high) included
CanvasWidths == {0, 800, 1000}
CanvasHeights == {0, 600, 1000}
CanvasSizes ==
    {[width |-> w, height |-> h] : w \in CanvasWidths, h \in CanvasHeights}

\* the arguments of Camera.moveTo and Camera.zoomTo, and the wheel's deltaY
MoveTargets == {V(0, 0), V(100, -50)}
ZoomTargets == {0, 50, 2500}
WheelDeltas == {-5000, 5000}

\* the points mapped through the camera
MapPoints == {V(0, 0), V(525, 600), V(-30, 7)}

InitCam ==
    \E cv \in CanvasSizes, opts \in {NoControls, DefaultControls} :
        InitWith(NoScene, opts, cv)

NextCam ==
    \/ \E pos \in MoveTargets : moveToCall(pos)
    \/ \E d \in ZoomTargets : zoomToCall(d)
    \/ \E dy \in WheelDeltas : wheel(dy)
    \/ \E cv \in CanvasSizes : resize(cv.width, cv.height)
    \/ \E p \in MapPoints : mapCall(p)

SpecCam == InitCam /\ [][NextCam]_vars

----------------------------------------------------------------------------
(* inside() alone *)

InsideCoords == {-1, 0, 1, 9, 10, 11}
InsideBoxes ==
    {<<V(0, 0), V(10, 10)>>, <<V(-1, 1), V(2, 9)>>, <<V(9, -1), V(2, 1)>>}

NextInside ==
    \E b \in InsideBoxes, x \in InsideCoords, y \in InsideCoords :
        insideCall(b[1], b[2], V(x, y))

SpecInside == InitOne /\ [][NextInside]_vars

----------------------------------------------------------------------------
(* The drag and selection contracts, checked under Spec and SpecOne *)

\* every root tick of the current frame has completed
AfterFrame == pc \in {"idle", "draw"}

Dragging == {n \in DOMAIN nodes : nodes[n].state.dragging}
Selected == {n \in DOMAIN nodes : nodes[n].state.selected}

\* C1: after every frame, whatever mouse events came between the frames and
\* even when the objects overlap, at most one object has state.dragging, that
\* object is the one Mouse.dragging refers to, and Mouse.dragging is
\* undefined exactly when no object is dragging
DragUnique ==
    AfterFrame =>
        /\ Cardinality(Dragging) <= 1
        /\ \A n \in DOMAIN nodes : nodes[n].state.dragging <=> Mouse.dragging = n
        /\ Mouse.dragging = None <=> Dragging = {}

\* C1's case: a is dragged while the mouse is over b, which overlaps it
DragUniqueSeen ==
    /\ pc = "idle"
    /\ "b" \in DOMAIN nodes
    /\ Mouse.dragging = "a"
    /\ Mouse.leftDown
    /\ Over("b")
    /\ colliding(nodes["a"].pos, nodes["a"].size, nodes["b"].pos, nodes["b"].size)

\* C2: after every frame at most one object has state.selected, and an object
\* has state.selected exactly when Mouse.selected refers to it
SelectUnique ==
    AfterFrame =>
        /\ Cardinality(Selected) <= 1
        /\ \A n \in DOMAIN nodes : nodes[n].state.selected <=> Mouse.selected = n

\* C2's case: of two objects, b has just been selected by a release
SelectUniqueSeen ==
    /\ pc = "draw"
    /\ hist.released = "b"
    /\ Mouse.selected = "b"
    /\ ~nodes["a"].state.selected

\* object n has ticked in the current frame
Ticked(n) ==
    \/ pc = "draw"
    \/ pc = "tick" /\ \E i \in 1..(tickIdx - 1) : TickOrder(nodes, objects)[i] = n

\* C3: from the tick in which an object starts dragging, at world mouse
\* position m0 and object position p0, to the release, the object's position
\* after each of its ticks is p0 + (m1 - m0), m1 being the world mouse
\* position at that tick: worldPos + dragOffset with dragOffset = p0 - m0
DragFidelity ==
    \A n \in DOMAIN nodes :
        (Mouse.dragging = n /\ Ticked(n)) =>
            /\ VEq(nodes[n].pos, Vec2sum(hist.p0, Vec2diff(Mouse.worldPos, hist.m0)))
            /\ VEq(nodes[n].state.dragOffset, Vec2diff(hist.p0, hist.m0))
            /\ VEq(nodes[n].pos, Vec2sum(Mouse.worldPos, nodes[n].state.dragOffset))

\* C3's case: a tick of a drag started in an earlier frame, the mouse having
\* moved since the drag started
DragFidelitySeen ==
    /\ pc = "draw"
    /\ Mouse.dragging = "a"
    /\ hist.started = None
    /\ ~VEq(Mouse.worldPos, hist.m0)
    /\ ~VEq(nodes["a"].pos, hist.p0)

\* the single object of SceneOne, between two frames
OneIdle == objects = <<"a">> /\ pc = "idle"

ClickSelects ==
    /\ Mouse.selected = hist.click.node
    /\ \A n \in DOMAIN nodes : nodes[n].state.selected <=> n = hist.click.node

ClickTicked ==
    /\ hist.click.phase = "done"
    /\ hist.click.framed
    /\ hist.click.owner
    /\ hist.click.nodrag

StaleDeselect ==
    [][(pc = "tick" /\ pc' = "draw") =>
         IF Mouse.leftDown /\ Mouse.selected # None /\ Mouse.selected = prevSelected
         THEN /\ nodes' = [nodes EXCEPT ![Mouse.selected].state.selected = FALSE]
              /\ ~nodes'[Mouse.selected].state.selected
              /\ Mouse' = [Mouse EXCEPT !.selected = None]
              /\ emitted' = emitted + 1
         ELSE /\ nodes' = nodes
              /\ Mouse' = Mouse
              /\ emitted' = emitted
              /\ Mouse.leftDown => Mouse.selected = None]_vars

\* C6's case: the driver has just deselected the object the button was
\* pressed on again
StaleDeselectSeen ==
    /\ pc = "draw"
    /\ hist.driverEmitted = 1
    /\ hist.selAfterTicks # None
    /\ Mouse.selected = None
    /\ Mouse.leftDown
    /\ Over(hist.selAfterTicks)

----------------------------------------------------------------------------
(* The geometry contracts, checked under SpecInside and SpecCam *)

\* inside() has just been evaluated
InsideProbed == probe.op = "inside"

\* C7 as stated: inside(pos, size, point) is true exactly when
\* pos.x <= point.x < pos.x + size.x and pos.y <= point.y < pos.y + size.y
InsideHalfOpen ==
    InsideProbed =>
        (probe.result <=>
            /\ RLe(probe.pos.x, probe.point.x)
            /\ RLt(probe.point.x, RAdd(probe.pos.x, probe.size.x))
            /\ RLe(probe.pos.y, probe.point.y)
            /\ RLt(probe.point.y, RAdd(probe.pos.y, probe.size.y)))

\* C7, amended: inside(pos, size, point) is true exactly when
\* pos.x < point.x < pos.x + size.x and pos.y < point.y < pos.y + size.y:
\* the box is open, its four edges are excluded
InsideOpen ==
    InsideProbed =>
        (probe.result <=>
            /\ RLt(probe.pos.x, probe.point.x)
            /\ RLt(probe.point.x, RAdd(probe.pos.x, probe.size.x))
            /\ RLt(probe.pos.y, probe.point.y)
            /\ RLt(probe.point.y, RAdd(probe.pos.y, probe.size.y)))

\* C7's case: a point on the left edge, between the top and the bottom edge,
\* is found outside
InsideSeen ==
    /\ InsideProbed
    /\ REq(probe.pos.x, probe.point.x)
    /\ RLt(probe.pos.y, probe.point.y)
    /\ RLt(probe.point.y, RAdd(probe.pos.y, probe.size.y))
    /\ ~probe.result

\* both round trips of the last mapCall give the point back
RoundTrips == VEq(probe.back, probe.p) /\ VEq(probe.forth, probe.p)

\* a scale component the maps can divide and multiply by
Usable(s) == IsFinite(s) /\ ~IsZero(s)

\* C8 as stated: whenever neither component of viewport.scale is zero,
\* worldToScreen(screenToWorld(p)) = p and screenToWorld(worldToScreen(p)) = p
RoundTripNonZero ==
    (/\ probe.op = "map"
     /\ ~IsZero(Camera.viewport.scale.x)
     /\ ~IsZero(Camera.viewport.scale.y)) => RoundTrips

\* C8, amended: whenever both components of viewport.scale are finite and
\* not zero (the canvas has a width and a height, the distance is not zero),
\* worldToScreen(screenToWorld(p)) = p and screenToWorld(worldToScreen(p)) = p
\* over the same viewport, in exact arithmetic
RoundTrip ==
    (/\ probe.op = "map"
     /\ Usable(Camera.viewport.scale.x)
     /\ Usable(Camera.viewport.scale.y)) => RoundTrips

\* C8's case: a point off the origin mapped through a camera that was moved
\* and whose scale is not 1
RoundTripSeen ==
    /\ probe.op = "map"
    /\ Usable(Camera.viewport.scale.x)
    /\ Usable(Camera.viewport.scale.y)
    /\ ~REq(Camera.viewport.scale.x, R(1))
    /\ ~VEq(Camera.lookAt, Vec2zero)
    /\ ~VEq(probe.p, Vec2zero)
    /\ VEq(probe.back, probe.p)

\* the viewport is a width x height rectangle centred on lookAt
Centred ==
    LET vp == Camera.viewport
    IN  /\ REq(RSub(vp.right, vp.left), vp.width)
        /\ REq(RSub(vp.bottom, vp.top), vp.height)
        /\ REq(vp.left, RSub(Camera.lookAt.x, RDiv(vp.width, R(2))))
        /\ REq(vp.top, RSub(Camera.lookAt.y, RDiv(vp.height, R(2))))

\* C9 as stated: after every update(), for every camera state,
\* right - left = width, bottom - top = height, and the rectangle is centred
\* on lookAt
CentredAlways == Centred

\* C9, amended: after every update() that found a canvas whose width is not
\* zero, with a finite distance and lookAt, right - left = width,
\* bottom - top = height and the rectangle is centred on lookAt, in exact
\* arithmetic
CentredViewport == hist.measured.width # 0 => Centred

\* C9's case: update() ran for a moved and zoomed camera
CentredSeen ==
    /\ hist.measured.width # 0
    /\ ~VEq(Camera.lookAt, Vec2zero)
    /\ ~REq(Camera.distance, R(InitDistance))
    /\ REq(Camera.viewport.width, Camera.distance)

\* the canvas has a width and a height
Displayed(cv) == cv.width > 0 /\ cv.height > 0

\* C10 as stated: the viewport's scale always matches the canvas,
\* scale.x = canvas.width / viewport.width and
\* scale.y = canvas.height / viewport.height, after initialization and after
\* every resize (stated for canvases that have a width and a height)
ScaleMatches ==
    (Displayed(canvas) /\ Displayed(hist.measured)) =>
        /\ REq(Camera.viewport.scale.x,
               RDiv(R(canvas.width), Camera.viewport.width))
        /\ REq(Camera.viewport.scale.y,
               RDiv(R(canvas.height), Camera.viewport.height))

----------------------------------------------------------------------------
(* Zooming: pairs of distances over any surface *)

\* the distances zoomed to, within the wheel's range
ZoomRange == {100, 101, 5000, 10000}

NextZoom ==
    \/ \E d1 \in ZoomRange, d2 \in ZoomRange : zoomTwice(d1, d2)
    \/ \E pos \in MoveTargets : moveToCall(pos)
    \/ \E cv \in CanvasSizes : resize(cv.width, cv.height)

SpecZoom == InitCam /\ [][NextZoom]_vars

\* zoomTo(d1) then zoomTo(d2) were called with d1 < d2, both in [100, 10000]
ZoomedUp ==
    /\ probe.op = "zoomTwice"
    /\ MinDistance <= probe.d1
    /\ probe.d1 < probe.d2
    /\ probe.d2 <= MaxDistance

\* the viewport grew in both directions from the first call to the second
Grew ==
    /\ RLt(probe.first.width, probe.second.width)
    /\ RLt(probe.first.height, probe.second.height)

\* C11 as stated: for any screen size and d1 < d2 in [100, 10000], the
\* viewport's width and height after zoomTo(d2) are strictly greater than
\* after zoomTo(d1)
ZoomGrowsAlways == ZoomedUp => Grew

\* C11, amended: for a screen whose width and height are not zero and
\* d1 < d2 in [100, 10000], the viewport's width and height after zoomTo(d2)
\* are strictly greater than after zoomTo(d1), in exact arithmetic; the width
\* is strictly greater for any screen
ZoomGrows ==
    ZoomedUp =>
        /\ RLt(probe.first.width, probe.second.width)
        /\ Displayed(canvas) => Grew

\* C11's case: two neighbouring distances on a screen that is not square,
\* with the camera moved off the origin
ZoomGrowsSeen ==
    /\ ZoomedUp
    /\ probe.d2 = probe.d1 + 1
    /\ Displayed(canvas)
    /\ canvas.width # canvas.height
    /\ ~VEq(Camera.lookAt, Vec2zero)
    /\ Grew

----------------------------------------------------------------------------
(* The input bindings of the camera: no object, every kind of controls *)

\* cameraControls with moveButton: () => Mouse.rightDown
RightControls == [DefaultControls EXCEPT !.moveButton = "rightDown"]

\* cameraControls with zoom: false and panning: false
OffControls == [DefaultControls EXCEPT !.zoom = "false", !.panning = "false"]

ControlOptions == {NoControls, DefaultControls, RightControls, OffControls}

\* the wheel's deltaY: steps that reach the clamps
WheelSteps == {-10000, 10000}

\* the mouse buttons: left and right
Buttons == {0, 2}

InitInput == \E opts \in ControlOptions : InitWith(NoScene, opts, SceneCanvas)

NextInput ==
    \/ \E p \in ScreenPoints : mousemove(p)
    \/ \E b \in Buttons : mousedown(b)
    \/ \E b \in Buttons : mouseup(b)
    \/ \E dy \in WheelSteps : wheel(dy)
    \/ lockCall
    \/ unlockCall

SpecInput == InitInput /\ [][NextInput]_vars

----------------------------------------------------------------------------
(* The wheel alone: the camera is changed by wheel events only *)

\* the wheel's deltaY: a notch each way, and steps that reach the clamps
WheelNotches == {-5000, -100, 100, 5000}

NextWheel ==
    \/ \E dy \in WheelNotches : wheel(dy)
    \/ \E b \in Buttons : mousedown(b)
    \/ \E b \in Buttons : mouseup(b)

SpecWheel == InitInput /\ [][NextWheel]_vars

\* min(max(d, 100), 10000)
Clamped(d) == RMin(RMax(d, R(MinDistance)), R(MaxDistance))

\* C12 as stated: with the camera changed by wheel events only, the distance
\* stays within [100, 10000], and each wheel event sets it to
\* min(max(distance + deltaY, 100), 10000)
WheelClamps ==
    /\ [](RLe(R(MinDistance), Camera.distance) /\ RLe(Camera.distance, R(MaxDistance)))
    /\ [][probe'.op = "wheel" =>
            REq(Camera'.distance,
                Clamped(RAdd(Camera.distance, R(probe'.deltaY))))]_vars

----------------------------------------------------------------------------
(* The contracts of the input bindings, checked under SpecInput, SpecWheel
   and SpecCalls *)

\* the step is a mouse or wheel event, not a call of the application
InputStep == probe'.op \in {"none", "wheel"}

\* the step leaves where the camera looks, and from how far, as they were
CameraStays ==
    /\ Camera'.lookAt = Camera.lookAt
    /\ Camera'.distance = Camera.distance

\* C13: while Camera.locked is true no mouse move, whatever the buttons and
\* the moveButton option, and no wheel event changes Camera.lookAt,
\* Camera.distance or a field of the viewport
LockGate ==
    [][(Camera.locked /\ InputStep) =>
          /\ CameraStays
          /\ Camera'.viewport = Camera.viewport]_vars

\* C13's case: the wheel has just turned on a locked camera with the left
\* button held and the mouse moved onto the canvas, under the default controls
LockGateSeen ==
    /\ Camera.locked
    /\ probe.op = "wheel"
    /\ Mouse.leftDown
    /\ ~VEq(Mouse.pos, Vec2zero)
    /\ canvasOptions = DefaultControls
    /\ REq(Camera.distance, R(InitDistance))

\* the calls of the application, with the lock toggled and the wheel turned
\* in between
FarZooms == {0, 50, 20000}

NextCalls ==
    \/ lockCall
    \/ unlockCall
    \/ \E pos \in MoveTargets : moveToCall(pos)
    \/ \E d \in FarZooms : zoomToCall(d)
    \/ \E dy \in WheelSteps : wheel(dy)
    \/ \E cv \in CanvasSizes : resize(cv.width, cv.height)

SpecCalls == InitInput /\ [][NextCalls]_vars

\* C14: for either value of Camera.locked, moveTo(p) sets lookAt to p and
\* zoomTo(d) sets distance to d, unclamped; each recomputes the viewport from
\* the new lookAt or distance and the canvas; neither changes Camera.locked
\* nor the other of lookAt and distance
CallsIgnoreLock ==
    [][/\ probe'.op = "moveTo" =>
            /\ Camera'.lookAt = probe'.pos
            /\ Camera'.distance = Camera.distance
            /\ Camera'.locked = Camera.locked
            /\ Camera'.viewport =
                  UpdatedViewport(Camera.distance, probe'.pos, canvas)
       /\ probe'.op = "zoomTo" =>
            /\ Camera'.distance = R(probe'.distance)
            /\ Camera'.lookAt = Camera.lookAt
            /\ Camera'.locked = Camera.locked
            /\ Camera'.viewport =
                  UpdatedViewport(R(probe'.distance), Camera.lookAt, canvas)]_vars

\* C14's case: a locked camera has been moved off the origin by moveTo, at a
\* distance beyond the wheel's range set by zoomTo
CallsIgnoreLockSeen ==
    /\ Camera.locked
    /\ probe.op = "moveTo"
    /\ VEq(Camera.lookAt, V(100, -50))
    /\ REq(Camera.distance, R(20000))
    /\ REq(Camera.viewport.left, R(100 - 10000))

\* the cameraControls option leaves no pan and no zoom binding active
BindingsOff == canvasOptions \in {NoControls, OffControls}

\* C16 as stated: without the cameraControls option, and with panning and
\* zoom explicitly false, no mouse move and no wheel event changes
\* Camera.lookAt or Camera.distance
NoBuiltinBinding == [][(BindingsOff /\ InputStep) => CameraStays]_vars

----------------------------------------------------------------------------
(* The camera during a drag, checked under Spec *)

\* C15: from the tick in which an object becomes the drag owner to the tick
\* in which it releases the drag, Camera.locked is true, so no mouse movement
\* during the drag changes Camera.lookAt; the release tick sets Camera.locked
\* to false
DragLocks ==
    /\ [](Mouse.dragging # None => Camera.locked)
    /\ [][Mouse.dragging # None => Camera'.lookAt = Camera.lookAt]_vars
    /\ [][(Mouse.dragging # None /\ Mouse'.dragging = None) =>
             ~Camera'.locked]_vars

\* C15's case: between two frames of a drag the mouse has moved with the
\* button held, and the camera has stayed where it was
DragLocksSeen ==
    /\ pc = "idle"
    /\ Mouse.dragging = "a"
    /\ Mouse.leftDown
    /\ ~VEq(Mouse.delta, Vec2zero)
    /\ ~VEq(Mouse.worldPos, Vec2sum(nodes["a"].pos, V(25, 25)))
    /\ VEq(Camera.lookAt, Vec2zero)
    /\ Camera.locked

----------------------------------------------------------------------------
(* The frame driver's order of calls, checked under SpecFrame *)

\* a root with one child, and a second root
SceneTree ==
    [objects |-> <<"a", "b">>,
     nodes |-> [i \in {"a", "b", "c"} |->
                  IF i = "a" THEN CanvasObject(V(0, 0), Box, <<"c">>, TRUE)
                  ELSE IF i = "b" THEN CanvasObject(V(100, 0), Box, <<>>, TRUE)
                  ELSE CanvasObject(V(10, 10), V(20, 20), <<>>, TRUE)]]

\* drawBackground given or not, debug and profiler on or off
FrameOptions ==
    {[NoControls EXCEPT !.drawBackground = bg, !.debug = dbg, !.profiler = prof] :
        bg \in BOOLEAN, dbg \in BOOLEAN, prof \in BOOLEAN}

InitFrame ==
    \E sc \in {NoScene, SceneTwo, SceneTree}, opts \in FrameOptions :
        InitWith(sc, opts, SceneCanvas)

NextFrame ==
    \/ mousemove(V(525, 525))
    \/ mousedown(0)
    \/ mouseup(0)
    \/ Frame

SpecFrame == InitFrame /\ [][NextFrame]_vars

\* the positions in the calls of the frame at which call c was made
At(c) == {i \in 1..Len(hist.calls) : hist.calls[i] = c}

\* the positions of the calls named name
Named(name) == {i \in 1..Len(hist.calls) : hist.calls[i][1] = name}

\* every position of I comes before every position of J
Before(I, J) == \A i \in I, j \in J : i < j

\* the objects the calls named name were made on, in order
Targets(name) ==
    LET sel == SelectSeq(hist.calls, LAMBDA c : c[1] = name)
    IN  [i \in 1..Len(sel) |-> sel[i][2]]

\* the roots among a sequence of objects, in order
Roots(seq) == SelectSeq(seq, LAMBDA n : \E k \in 1..Len(objects) : objects[k] = n)

\* a frame has run to its end
FrameDone == pc = "idle" /\ hist.calls # <<>>

\* C17: in every frame the tick of every root and of all its descendants and
\* the stale-selection check complete before any draw starts, and the roots
\* are drawn in the order in which they were ticked
TickThenDraw ==
    /\ Before(Named("tick"), Named("staleCheck"))
    /\ Before(Named("tick"), Named("draw"))
    /\ Before(Named("staleCheck"), Named("draw"))
    /\ FrameDone =>
          /\ Targets("tick") = TickOrder(nodes, objects)
          /\ \A n \in DOMAIN nodes : Cardinality(At(<<"tick", n>>)) = 1
          /\ Cardinality(Named("staleCheck")) = 1
          /\ Roots(Targets("draw")) = Roots(Targets("tick"))
          /\ Roots(Targets("draw")) = objects

\* C17's case: a frame over a root with a child and a second root has ended
TickThenDrawSeen ==
    /\ FrameDone
    /\ Targets("tick") = <<"c", "a", "b">>
    /\ Targets("draw") = <<"c", "a", "b">>
    /\ Mouse.hovering = "c"

\* the saved states of the drawing surface that the calls so far have left:
\* Camera.begin() saves one, Camera.end() restores one
Depth == Cardinality(Named("Camera.begin")) - Cardinality(Named("Camera.end"))

\* the calls that must be made in world space
WorldCalls == Named("drawBackground") \cup Named("tick") \cup Named("draw")

\* C18: every frame calls Camera.begin() once, right after clearing the
\* surface, and Camera.end() once; the background painter, every tick and
\* every draw come between them, the debug and profiler overlays after end;
\* one state of the surface is saved from begin to end and none at the end of
\* the frame, as at its start
BeginEndPaired ==
    /\ pc \in {"tick", "draw"} =>
          /\ hist.calls[1] = Call("clearRect")
          /\ hist.calls[2] = Call("Camera.begin")
          /\ Depth = 1
    /\ pc = "idle" => Depth = 0
    /\ Cardinality(Named("Camera.begin")) <= 1
    /\ Before(Named("Camera.begin"), WorldCalls)
    /\ Before(WorldCalls, Named("Camera.end"))
    /\ Before(Named("Camera.end"), Named("debug") \cup Named("profiler"))
    /\ FrameDone =>
          /\ Cardinality(Named("Camera.begin")) = 1
          /\ Cardinality(Named("Camera.end")) = 1
          /\ canvasOptions.drawBackground <=> Named("drawBackground") # {}
          /\ canvasOptions.debug <=> Named("debug") # {}
          /\ canvasOptions.profiler <=> Named("profiler") # {}

\* C18's case: a frame with a background painter, objects and both overlays
\* has ended
BeginEndPairedSeen ==
    /\ FrameDone
    /\ canvasOptions.drawBackground
    /\ canvasOptions.debug
    /\ canvasOptions.profiler
    /\ Len(Targets("draw")) = 3

\* the notifications of the frame driver, in their order
Hooks == <<"beforeBackground", "beforeTick", "beforeDraw", "afterDraw",
           "afterCamera">>

\* C19 as stated: every frame emits beforeBackground, beforeTick, beforeDraw,
\* afterDraw and afterCamera, each once and in that order: beforeBackground
\* before Camera.begin(), beforeTick before the first tick, beforeDraw after
\* the stale check and before the first draw, afterDraw after the last draw
\* and before Camera.end(), afterCamera after Camera.end() and before the
\* debug overlay
FrameHooks ==
    FrameDone =>
        /\ \A k \in 1..Len(Hooks) : Cardinality(Named(Hooks[k])) = 1
        /\ \A k \in 1..(Len(Hooks) - 1) : Before(Named(Hooks[k]), Named(Hooks[k + 1]))
        /\ Before(Named("beforeBackground"), Named("Camera.begin"))
        /\ Before(Named("beforeTick"), Named("tick"))
        /\ Before(Named("staleCheck"), Named("beforeDraw"))
        /\ Before(Named("beforeDraw"), Named("draw"))
        /\ Before(Named("draw"), Named("afterDraw"))
        /\ Before(Named("afterDraw"), Named("Camera.end"))
        /\ Before(Named("Camera.end"), Named("afterCamera"))
        /\ Before(Named("afterCamera"), Named("debug"))

----------------------------------------------------------------------------
(* Objects leaving the scene *)

\* the application takes object id out of the objects list, between two
\* frames; the object itself and the references to it stay
removeObject(id) ==
    /\ pc = "idle"
    /\ \E i \in 1..Len(objects) : objects[i] = id
    /\ objects' = SelectSeq(objects, LAMBDA x : x # id)
    /\ probe' = [op |-> "remove", id |-> id]
    /\ UNCHANGED <<canvas, canvasOptions, Camera, Mouse, nodes, pc, tickIdx,
                   prevSelected, emitted, hist>>

NextRemove ==
    \/ mousemove(V(525, 525))
    \/ mousedown(0)
    \/ mouseup(0)
    \/ Frame
    \/ \E id \in {"a", "b"} : removeObject(id)

\* the mouse and the frame loop over two overlapping roots that the
\* application may remove
SpecRemove == InitWith(SceneTwo, NoControls, SceneCanvas) /\ [][NextRemove]_vars

\* C20: once a frame has run after an object was removed from the objects
\* list, none of Mouse.hovering, Mouse.dragging and Mouse.selected refers to
\* it, and a removed object does not keep the camera locked
NoDangling ==
    /\ \A id \in hist.swept :
          Mouse.hovering # id /\ Mouse.dragging # id /\ Mouse.selected # id
    /\ (hist.swept # {} /\ Camera.locked) => Mouse.dragging \notin hist.swept

----------------------------------------------------------------------------
(* Objects that cannot be dragged *)

\* an object whose constructor set state.draggable to false, and a draggable
\* one beside it
SceneFixed ==
    [objects |-> <<"a", "b">>,
     nodes |-> [i \in {"a", "b"} |->
                  IF i = "a" THEN CanvasObject(V(0, 0), Box, <<>>, FALSE)
                  ELSE CanvasObject(V(100, 0), Box, <<>>, TRUE)]]

\* the mouse and the frame loop over a fixed object and a draggable one
SpecFixed == InitWith(SceneFixed, NoControls, SceneCanvas) /\ [][Next]_vars

\* the objects that are not draggable
FixedIds == {id \in DOMAIN nodes : ~nodes[id].state.draggable}

\* the object whose own tick logic the next step of the frame runs
Ticking ==
    IF pc = "tick" /\ tickIdx <= Len(Scene) THEN Scene[tickIdx] ELSE None

\* the own tick of a fixed object leaves the camera and Mouse.dragging alone
FixedTickKeeps ==
    Ticking \in FixedIds => (Camera' = Camera /\ Mouse'.dragging = Mouse.dragging)

\* the own tick of a fixed object that may take the hover takes it exactly
\* when the mouse is over it
FixedTickHovers ==
    (Ticking \in FixedIds /\ Mouse.hovering \in {None, Ticking}) =>
        /\ nodes'[Ticking].state.hovering <=> Over(Ticking)
        /\ Mouse'.hovering = Ticking <=> Over(Ticking)

\* C21: an object that is not draggable never owns the drag, no step changes
\* its pos, its own tick leaves the camera and Mouse.dragging alone, and its
\* own tick acquires and releases the hover as for any object
FixedStays ==
    /\ [](\A id \in FixedIds : Mouse.dragging # id /\ ~nodes[id].state.dragging)
    /\ [][\A id \in FixedIds : nodes'[id].pos = nodes[id].pos]_vars
    /\ [][FixedTickKeeps]_vars
    /\ [][FixedTickHovers]_vars

\* the button went down over the fixed object, a frame has run since, and the
\* next frame has ticked it while it owns the hover
FixedStaysSeen ==
    /\ pc = "draw"
    /\ Mouse.leftDown
    /\ Mouse.hovering = "a"
    /\ ~nodes["a"].state.draggable
    /\ hist.click.phase = "down"
    /\ hist.click.node = "a"
    /\ hist.click.framed

----------------------------------------------------------------------------
(* Mouse.delta *)

\* the left button went down over an object, a frame has run since, and no
\* mouse move has followed the press: the mouse has not moved since the
\* ticks of that frame
StillSinceTick == hist.click.phase = "down" /\ hist.click.framed

\* C22: when a frame begins to tick and the mouse has not moved since the
\* ticks of the previous frame, Mouse.delta is (0,0)
DeltaSinceTick ==
    [][(pc = "idle" /\ pc' = "tick" /\ StillSinceTick) =>
          VEq(Mouse.delta, Vec2zero)]_vars

----------------------------------------------------------------------------
(* The frame loop *)

\* the host runs a requested frame, and draw() runs to its end
Fair == WF_vars(Frame)

\* the mouse and the frame loop over a single object, under a host that runs
\* the frames it was asked for
SpecLoop == InitOne /\ [][Next]_vars /\ Fair

\* a step that is the work of an input listener: it changes what only the
\* listeners write
InputChanged ==
    \/ Mouse'.pos # Mouse.pos
    \/ Mouse'.delta # Mouse.delta
    \/ Mouse'.leftDown # Mouse.leftDown
    \/ Mouse'.rightDown # Mouse.rightDown

\* C23: every frame that completes has requested exactly one next frame, a
\* further frame always eventually begins and ends, and the input listeners
\* run only between two frames
LoopRuns ==
    /\ [](FrameDone => Requests(hist.calls) = 1)
    /\ [](pc \in {"tick", "draw"} => Requests(hist.calls) = 0)
    /\ [][InputChanged => (pc = "idle" /\ pc' = "idle")]_vars
    /\ []<>(pc = "tick")
    /\ []<>FrameDone

\* the button went down between two frames, a frame has run since, and the
\* next one is under way
LoopRunsSeen ==
    /\ pc = "tick"
    /\ hist.click.phase = "down"
    /\ hist.click.framed
    /\ Mouse.leftDown

----------------------------------------------------------------------------
(* Registration and the order of ticks *)

\* CanvasObject.addToScene(): the object is pushed onto the objects list
addToScene(id) ==
    /\ pc = "idle"
    /\ \A i \in 1..Len(objects) : objects[i] # id
    /\ objects' = Append(objects, id)
    /\ probe' = [op |-> "addToScene", id |-> id]
    /\ UNCHANGED <<canvas, canvasOptions, Camera, Mouse, nodes, pc, tickIdx,
                   prevSelected, emitted, hist>>

\* a parent with two children, the first of which has a child of its own, and
\* a second parent without children
NodesDeep ==
    [i \in {"a", "b", "c", "d", "e"} |->
        IF i = "a" THEN CanvasObject(V(0, 0), Box, <<"c", "d">>, TRUE)
        ELSE IF i = "b" THEN CanvasObject(V(10, 0), Box, <<>>, TRUE)
        ELSE IF i = "c" THEN CanvasObject(V(10, 10), V(20, 20), <<"e">>, TRUE)
        ELSE IF i = "d" THEN CanvasObject(V(30, 10), V(20, 20), <<>>, TRUE)
        ELSE CanvasObject(V(20, 20), V(10, 10), <<>>, TRUE)]

\* the objects are constructed and none is in the scene yet
InitOrder ==
    InitWith([objects |-> <<>>, nodes |-> NodesDeep], NoControls, SceneCanvas)

NextOrder ==
    \/ \E id \in {"a", "b"} : addToScene(id)
    \/ mousemove(V(525, 525))
    \/ mousedown(0)
    \/ mouseup(0)
    \/ Frame

\* the two parents registered in either order, the mouse and the frame loop
SpecOrder == InitOrder /\ [][NextOrder]_vars

\* the position in the calls of the frame of the call name on object n
Pos(name, n) == CHOOSE i \in 1..Len(hist.calls) : hist.calls[i] = <<name, n>>

\* object n and its descendants
RECURSIVE Subtree(_)
Subtree(n) ==
    {n} \cup UNION {Subtree(nodes[n].children[k]) :
                        k \in 1..Len(nodes[n].children)}

\* in the calls named name, the objects of seq and their subtrees come in the
\* order of seq
InListOrder(name, seq) ==
    \A j, k \in 1..Len(seq) :
        j < k => \A m \in Subtree(seq[j]), n \in Subtree(seq[k]) :
                    Pos(name, m) < Pos(name, n)

\* the calls of the frame that has run are in the order of the objects list
\* and of the child lists
OrderKept ==
    /\ \A n \in SceneIds : Cardinality(At(<<"tick", n>>)) = 1
    /\ Cardinality(Named("tick")) = Cardinality(SceneIds)
    /\ InListOrder("tick", objects)
    /\ \A n \in SceneIds :
          /\ InListOrder("tick", nodes[n].children)
          /\ \A m \in Subtree(n) \ {n} : Pos("tick", m) < Pos("tick", n)
    /\ Targets("draw") = Targets("tick")

\* C24: when a frame ends, the roots and their subtrees have ticked in the
\* order of the objects list, the children of an object and their subtrees in
\* the order of its child list and before the object's own logic, every
\* object of the scene once, and the draws were made in the same order
TickOrderKept == [][(pc = "draw" /\ pc' = "idle") => OrderKept']_vars

\* a frame has run with the second parent registered before the first
TickOrderKeptSeen ==
    /\ FrameDone
    /\ objects = <<"b", "a">>
    /\ Targets("tick") = <<"b", "e", "c", "d", "a">>

----------------------------------------------------------------------------
(* Hover *)

\* overlapping objects: a draggable parent, its child, and a second root, the
\* last two not draggable
SceneHover ==
    [objects |-> <<"a", "b">>,
     nodes |-> [i \in {"a", "b", "c"} |->
                  IF i = "a" THEN CanvasObject(V(0, 0), Box, <<"c">>, TRUE)
                  ELSE IF i = "b" THEN CanvasObject(V(10, 0), Box, <<>>, FALSE)
                  ELSE CanvasObject(V(110, 10), V(20, 20), <<>>, FALSE)]]

InitHover == InitWith(SceneHover, NoControls, SceneCanvas)

\* the mouse and the frame loop over nested, overlapping objects
SpecHover == InitHover /\ [][Next]_vars

\* the objects whose hovering flag is set
Hovering == {n \in DOMAIN nodes : nodes[n].state.hovering}

\* C25: at most one object has its hovering flag set, and an object has it
\* set exactly when Mouse.hovering refers to it
HoverUnique ==
    /\ Cardinality(Hovering) <= 1
    /\ \A n \in DOMAIN nodes : nodes[n].state.hovering <=> Mouse.hovering = n

\* the mouse is over several objects, one of them owns the hover, and the
\* frame has ticked them all
HoverUniqueSeen ==
    /\ pc = "draw"
    /\ Cardinality({n \in SceneIds : Over(n)}) >= 2
    /\ Mouse.hovering \in SceneIds
    /\ Hovering = {Mouse.hovering}

\* the mouse is inside the box of the ticking object as its hover test finds
\* it, after the drag blocks of the same tick
InBox ==
    inside(nodes'[Ticking].pos, nodes'[Ticking].size, Mouse.worldPos)

\* the hover test of the ticking object: acquired, released, or left alone
HoverStep ==
    IF Mouse.hovering \in {None, Ticking} /\ InBox
    THEN Mouse'.hovering = Ticking /\ nodes'[Ticking].state.hovering
    ELSE IF Mouse.hovering = Ticking
    THEN Mouse'.hovering = None /\ ~nodes'[Ticking].state.hovering
    ELSE /\ Mouse'.hovering = Mouse.hovering
         /\ nodes'[Ticking].state.hovering = nodes[Ticking].state.hovering

\* C26: an object's own tick makes it the hover owner if the hover is free or
\* its own and the mouse is inside its box, releases the hover if it was the
\* owner and the mouse is not inside, and otherwise leaves Mouse.hovering and
\* its flag as they were; no tick changes the flag of another object
HoverAcquireRelease ==
    [][Ticking # None =>
          /\ HoverStep
          /\ \A n \in DOMAIN nodes \ {Ticking} :
                nodes'[n].state.hovering = nodes[n].state.hovering]_vars

\* the second root has ticked with the mouse inside its box while the first
\* owns the hover
HoverAcquireReleaseSeen ==
    /\ pc = "draw"
    /\ Mouse.hovering = "a"
    /\ Over("a")
    /\ Over("b")
    /\ ~nodes["b"].state.hovering

----------------------------------------------------------------------------
(* The release of a drag *)

\* the ticking object owns the drag and the left button is up
Releasing == Ticking # None /\ Mouse.dragging = Ticking /\ ~Mouse.leftDown

\* what the tick of the releasing object leaves
Released ==
    /\ VEq(nodes'[Ticking].pos,
           Vec2sum(Mouse.worldPos, nodes[Ticking].state.dragOffset))
    /\ ~nodes'[Ticking].state.dragging
    /\ Mouse'.dragging = None
    /\ ~Camera'.locked
    /\ Mouse'.selected = Ticking
    /\ nodes'[Ticking].state.selected
    /\ \A n \in DOMAIN nodes \ {Ticking} :
          /\ Mouse.selected = n => ~nodes'[n].state.selected
          /\ Mouse.selected # n =>
                nodes'[n].state.selected = nodes[n].state.selected
    /\ emitted' = emitted + 1

\* C27: the tick of an object that owns the drag while the left button is up
\* moves it to the mouse plus its drag offset, clears its dragging flag and
\* Mouse.dragging, unlocks the camera, clears the selected flag of the object
\* selected before, makes it Mouse.selected with its flag set, and emits one
\* "select"
ReleaseSelects == [][Releasing => Released]_vars

\* a drag that moved the draggable object was released in this frame
ReleaseSelectsSeen ==
    /\ pc = "draw"
    /\ hist.released = "b"
    /\ Mouse.selected = "b"
    /\ nodes["b"].state.selected
    /\ ~VEq(nodes["b"].pos, V(100, 0))
    /\ emitted = 1

----------------------------------------------------------------------------
(* The start of a drag *)

\* the tick of the ticking object makes it the drag owner
Starting == Ticking # None /\ Mouse.dragging # Ticking /\ Mouse'.dragging = Ticking

\* C28: in every tick in which an object becomes the drag owner, the mouse is
\* inside its box, the left button is down, the object is draggable and no
\* object was dragging
DragStartsUnderMouse ==
    [][Starting =>
          /\ Over(Ticking)
          /\ Mouse.leftDown
          /\ nodes[Ticking].state.draggable
          /\ Mouse.dragging = None]_vars

----------------------------------------------------------------------------
(* Mouse.worldPos *)

\* a mouse move has placed the mouse
Placed == ~VEq(Mouse.pos, Vec2zero)

\* C29: when a frame begins after the mouse has moved, Mouse.worldPos is
\* Camera.screenToWorld(Mouse.pos) for the viewport as it is then
WorldPosMapped ==
    [][(pc = "idle" /\ pc' = "tick" /\ Placed) =>
          VEq(Mouse.worldPos, screenToWorld(Camera.viewport, Mouse.pos))]_vars

----------------------------------------------------------------------------
(* Mouse moves between the press and the frame that starts the drag *)

\* two points of the screen, the first over the object
RacePoints == {V(525, 525), V(575, 525)}

NextRace ==
    \/ \E p \in RacePoints : mousemove(p)
    \/ mousedown(0)
    \/ mouseup(0)
    \/ Frame

\* the mouse and the frame loop over one object, with the built-in camera
\* controls on
SpecRace ==
    InitWith(SceneOne, DefaultControls, SceneCanvas) /\ [][NextRace]_vars

\* the left button went down while a draggable object owned the hover, and
\* neither a mouse move nor the button's release has followed
Pressed ==
    /\ hist.click.phase = "down"
    /\ hist.click.owner
    /\ Mouse.leftDown

\* C30: a mouse move that follows a press of the left button on the draggable
\* hover owner does not change Camera.lookAt, whether or not a frame has run
\* since the press
PressNeverPans ==
    [][(Pressed /\ Mouse'.pos # Mouse.pos) => Camera'.lookAt = Camera.lookAt]_vars

----------------------------------------------------------------------------
(* Selection while the button is held *)

\* no object is selected
NoneSelected ==
    Mouse.selected = None /\ \A n \in DOMAIN nodes : ~nodes[n].state.selected

\* C31: when the stale check of a frame has run with the left button down,
\* and so at the end of that frame, no object is selected; between two
\* frames no object is both dragging and selected
HeldDeselects ==
    /\ (pc = "draw" /\ Mouse.leftDown) => NoneSelected
    /\ pc = "idle" =>
          \A n \in DOMAIN nodes :
              ~(nodes[n].state.dragging /\ nodes[n].state.selected)

\* the selected object is being dragged again, and the frame has deselected it
HeldDeselectsSeen ==
    /\ pc = "draw"
    /\ Mouse.leftDown
    /\ prevSelected = "b"
    /\ Mouse.dragging = "b"
    /\ NoneSelected

----------------------------------------------------------------------------
(* Who takes a free hover *)

\* the first object of seq that the mouse is over, if there is one
RECURSIVE FirstOver(_)
FirstOver(seq) ==
    IF seq = <<>> THEN None
    ELSE IF Over(Head(seq)) THEN Head(seq)
    ELSE FirstOver(Tail(seq))

\* the own tick of an object finds the hover free: the object takes it if the
\* mouse is inside its box, and else the hover stays free
FreeHoverStep ==
    (Ticking # None /\ Mouse.hovering = None) =>
        Mouse'.hovering = (IF InBox THEN Ticking ELSE None)

\* the own tick of an object finds the hover owned by another: it stays so
OwnedHoverStep ==
    (Ticking # None /\ Mouse.hovering \notin {None, Ticking}) =>
        Mouse'.hovering = Mouse.hovering

\* the first frame after the first mouse move has ticked all objects; no
\* object owned the hover when it began
FirstFrameTicked == pc = "draw" /\ hist.scn1 = 1

----------------------------------------------------------------------------
(* The only way to a selection *)

\* a step gives Mouse.selected a new object, or sets an object's selected flag
Selecting(id) ==
    \/ Mouse'.selected = id /\ Mouse.selected # id
    \/ nodes'[id].state.selected /\ ~nodes[id].state.selected

\* C33: an object becomes Mouse.selected, and gets its selected flag, only in
\* its own tick while it owns the drag and the left button is up; an object
\* that is not draggable is never selected
SelectedByReleaseOnly ==
    /\ [][\A id \in DOMAIN nodes :
             Selecting(id) => (Ticking = id /\ Releasing)]_vars
    /\ [](\A id \in FixedIds :
             Mouse.selected # id /\ ~nodes[id].state.selected)

\* the object that is not draggable has been clicked, with a frame between
\* press and release and one after, while it owned the hover
SelectedByReleaseOnlySeen ==
    /\ hist.click.phase = "done"
    /\ hist.click.node = "a"
    /\ hist.click.framed
    /\ "a" \in FixedIds
    /\ Mouse.hovering = "a"
    /\ Mouse.selected = None

----------------------------------------------------------------------------
(* A drag and the application's camera lock *)

\* the application has called Camera.lock() right after initCanvas()
InitLocked ==
    /\ canvas = SceneCanvas
    /\ canvasOptions = NoControls
    /\ Camera = lock(update(InitCamera, SceneCanvas))
    /\ Mouse = InitMouse
    /\ objects = SceneOne.objects
    /\ nodes = SceneOne.nodes
    /\ pc = "idle"
    /\ tickIdx = 1
    /\ prevSelected = None
    /\ emitted = 0
    /\ hist = InitHist
    /\ probe = NoProbe

\* the mouse and the frame loop; the application may lock the camera again
\* and never unlocks it
NextLock ==
    \/ Next
    \/ lockCall

SpecLock == InitLocked /\ [][NextLock]_vars

\* C34: the tick that starts a drag leaves the camera locked and the tick that
\* releases one leaves it unlocked, whatever the lock was before; when the
\* ticks of a frame with a release are done the camera is unlocked, though the
\* application locked it before the drag and never unlocked it
DragOverwritesLock ==
    /\ [][Starting => Camera'.locked]_vars
    /\ [][Releasing => ~Camera'.locked]_vars
    /\ [][(Camera.locked /\ ~Camera'.locked) => Releasing]_vars
    /\ []((pc = "draw" /\ hist.released # None) => ~Camera.locked)

\* the camera the application locked from the start is unlocked after the
\* frame that released a drag of the object
DragOverwritesLockSeen ==
    /\ pc = "draw"
    /\ hist.released = "a"
    /\ Mouse.dragging = None
    /\ ~Camera.locked

----------------------------------------------------------------------------
(* Panning and the point under the cursor *)

\* a mouse move handled with the camera unlocked, the pan button down and
\* the panning binding of cameraControls installed
PanMove ==
    /\ pc = "idle"
    /\ Mouse'.pos # Mouse.pos
    /\ ~Camera.locked
    /\ PanningInstalled(canvasOptions)
    /\ MoveButton(canvasOptions, Mouse)

\* C35: a mouse move that pans moves lookAt by minus Mouse.delta, once, and so
\* the world point under the cursor after the event is the one that was under
\* it before
PanKeepsGrab ==
    [][PanMove =>
          /\ VEq(Camera'.lookAt, Vec2diff(Camera.lookAt, Mouse'.delta))
          /\ VEq(screenToWorld(Camera'.viewport, Mouse'.pos),
                 screenToWorld(Camera.viewport, Mouse.pos))]_vars

====
